---- MODULE Spec2Model ----
(***************************************************************************)
(* Model of newsroom/agenda/formatters/ical_formatter.py: the conversion   *)
(* of one agenda record into an iCalendar document with one VEVENT.        *)
(*                                                                         *)
(* Python values are modelled as follows.                                  *)
(*   dict      a function whose DOMAIN is the set of keys that are present *)
(*   list      a sequence                                                  *)
(*   str, int  strings and integers; datetimes and floats are opaque       *)
(*             strings                                                     *)
(*   None      the empty tuple << >> where a value may be missing, a       *)
(*             present value v being << v >> (the result of dict.get       *)
(*             without a default)                                          *)
(* An icalendar component is a function from a property name to the        *)
(* sequence of the values added under that name, in the order of the adds. *)
(***************************************************************************)
EXTENDS Integers, Sequences, FiniteSets, TLC

VARIABLES record, call, exc, document, filename

vars == <<record, call, exc, document, filename>>

(* ------------------------------ bounds --------------------------------- *)

MaxPriority == 2

MaxCount == 2

MaxLocations == 2

MaxContacts == 2

(* ------------------------- Python primitives --------------------------- *)

None == << >>

EmptyDict == << >>

Has(d, k) == k \in DOMAIN d

Get(d, k) == IF k \in DOMAIN d THEN << d[k] >> ELSE None

GetD(d, k, default) == IF k \in DOMAIN d THEN d[k] ELSE default

TruthyStr(d, k) == k \in DOMAIN d /\ d[k] # ""

TruthyInt(d, k) == k \in DOMAIN d /\ d[k] # 0

TruthyList(d, k) == k \in DOMAIN d /\ d[k] # << >>

TruthyBool(d, k) == k \in DOMAIN d /\ d[k] = TRUE

TruthyDatetime(d, k) == k \in DOMAIN d

PyStr(m) == IF m = None THEN "None" ELSE m[1]

(* ----------------------------- inputs ---------------------------------- *)

Opt(S) == {None} \cup {<< v >> : v \in S}

Dict(o) == [k \in {j \in DOMAIN o : o[j] # None} |-> o[k][1]]

SeqUpTo(S, n) == UNION {[1..m -> S] : m \in 0..n}

Clock == {"20180101T000000Z", "20180102T000000Z"}

(* --------------------------- the formatter ----------------------------- *)

VERSION == "2.0"

PRODID == "Newshub"

NewEvent == EmptyDict

(* icalendar.Component.add: a first value creates the property, a further  *)
(* value under the same name is appended to it.                             *)
Add(ev, name, value) ==
    IF name \in DOMAIN ev
    THEN [ev EXCEPT ![name] = Append(@, value)]
    ELSE ev @@ (name :> << value >>)

(* Mutant: 'count' in rrule instead of rrule.get('count').                  *)
get_rrule_kwargs_count_in(rrule) ==
    Dict(("freq" :> << rrule["frequency"] >>)
      @@ ("count" :> Get(rrule, "count"))
      @@ ("interval" :> IF TruthyInt(rrule, "interval") THEN << rrule["interval"] >> ELSE None)
      @@ ("until" :> IF TruthyDatetime(rrule, "until") THEN << rrule["until"] >> ELSE None))

(* get_rrule_kwargs, called with a rule that has 'frequency' (a rule        *)
(* without it raises KeyError, see HasRecurrence).                          *)
get_rrule_kwargs(rrule) ==
    Dict(("freq" :> << rrule["frequency"] >>)
      @@ ("count" :> IF TruthyInt(rrule, "count") THEN << rrule["count"] >> ELSE None)
      @@ ("interval" :> IF TruthyInt(rrule, "interval") THEN << rrule["interval"] >> ELSE None)
      @@ ("until" :> IF TruthyDatetime(rrule, "until") THEN << rrule["until"] >> ELSE None))

(* Mutant: the nested guid is preferred to the record's own.                *)
guid_event_first(item) ==
    IF Has(GetD(item, "event", EmptyDict), "guid")
    THEN << GetD(item, "event", EmptyDict)["guid"] >>
    ELSE IF Has(item, "guid") THEN << item["guid"] >>
         ELSE Get(item, "_id")

(* Mutant: item.get('_id', '').                                             *)
guid_default_empty(item) ==
    IF Has(item, "guid") THEN << item["guid"] >>
    ELSE IF Has(GetD(item, "event", EmptyDict), "guid")
         THEN << GetD(item, "event", EmptyDict)["guid"] >>
         ELSE << GetD(item, "_id", "") >>

(* guid(item): dict.get tests the presence of the key, not its value; the   *)
(* innermost get has no default and gives None.                             *)
guid(item) ==
    IF Has(item, "guid") THEN << item["guid"] >>
    ELSE IF Has(GetD(item, "event", EmptyDict), "guid")
         THEN << GetD(item, "event", EmptyDict)["guid"] >>
         ELSE Get(item, "_id")

format_filename(event) == PyStr(guid(event)) \o ".ical"

AddIdentity(item, now, ev) ==
    Add(Add(ev, "uid", guid(item)), "dtstamp", now)

(* Mutant: 'priority' in item instead of item.get('priority').              *)
AddDescription_priority_in(item, ev) ==
    LET e1 == Add(ev, "summary", item["name"])
        e2 == IF TruthyStr(item, "definition_long")
              THEN Add(e1, "description", item["definition_long"]) ELSE e1
        e3 == IF TruthyStr(item, "ednote")
              THEN Add(e2, "comment", item["ednote"]) ELSE e2
    IN  IF Has(item, "priority")
        THEN Add(e3, "priority", item["priority"]) ELSE e3

AddDescription(item, ev) ==
    LET e1 == Add(ev, "summary", item["name"])
        e2 == IF TruthyStr(item, "definition_long")
              THEN Add(e1, "description", item["definition_long"]) ELSE e1
        e3 == IF TruthyStr(item, "ednote")
              THEN Add(e2, "comment", item["ednote"]) ELSE e2
    IN  IF TruthyInt(item, "priority")
        THEN Add(e3, "priority", item["priority"]) ELSE e3

AddCategories(item, ev) ==
    LET calendars == GetD(item, "calendars", << >>)
        f[i \in 0..Len(calendars)] ==
            IF i = 0 THEN ev
            ELSE IF TruthyStr(calendars[i], "name")
                 THEN Add(f[i-1], "categories", calendars[i]["name"])
                 ELSE f[i-1]
    IN  f[Len(calendars)]

AddDates(item, ev) ==
    LET dates == GetD(item, "dates", EmptyDict)
        e1 == Add(ev, "dtstart", dates["start"])
    IN  IF TruthyDatetime(dates, "end") THEN Add(e1, "dtend", dates["end"]) ELSE e1

(* The try block of lines 65-69 completes without KeyError: every key of    *)
(* item['event']['dates']['recurring_rule'] resolves and so does            *)
(* rrule['frequency'] inside get_rrule_kwargs.                              *)
HasRecurrence(item) ==
    /\ Has(item, "event")
    /\ Has(item["event"], "dates")
    /\ Has(item["event"]["dates"], "recurring_rule")
    /\ Has(item["event"]["dates"]["recurring_rule"], "frequency")

AddRecurrence(item, ev) ==
    IF HasRecurrence(item)
    THEN Add(ev, "rrule", get_rrule_kwargs(item["event"]["dates"]["recurring_rule"]))
    ELSE ev

(* flask.url_for('upload.get_upload', media_id=..., _external=True)         *)
url_for(media_id) == "http://localhost/assets/" \o media_id

AddAttachments(item, ev) ==
    LET files == GetD(GetD(item, "event", EmptyDict), "files", << >>)
        f[i \in 0..Len(files)] ==
            IF i = 0 THEN ev
            ELSE IF TruthyStr(files[i], "media")
                 THEN Add(f[i-1], "attach", url_for(files[i]["media"]))
                 ELSE f[i-1]
    IN  f[Len(files)]

HasGeo(loc) ==
    /\ Has(loc, "location")
    /\ Has(loc["location"], "lat")
    /\ Has(loc["location"], "lon")

(* Mutant: the coordinates are read inside the branch of the name.          *)
AddLocation_geo_under_name(loc, ev) ==
    IF TruthyStr(loc, "name")
    THEN LET e1 == Add(ev, "location", loc["name"])
         IN  IF HasGeo(loc)
             THEN Add(e1, "geo", << loc["location"]["lat"], loc["location"]["lon"] >>)
             ELSE e1
    ELSE ev

AddLocation(loc, ev) ==
    LET e1 == IF TruthyStr(loc, "name") THEN Add(ev, "location", loc["name"]) ELSE ev
    IN  IF HasGeo(loc)
        THEN Add(e1, "geo", << loc["location"]["lat"], loc["location"]["lon"] >>)
        ELSE e1

AddGeo(item, ev) ==
    IF TruthyList(item, "location")
    THEN LET location == item["location"]
             f[i \in 0..Len(location)] ==
                 IF i = 0 THEN ev ELSE AddLocation(location[i], f[i-1])
         IN  f[Len(location)]
    ELSE ev

AddLinks(item, ev) ==
    LET links == GetD(GetD(item, "event", EmptyDict), "links", << >>)
        f[i \in 0..Len(links)] ==
            IF i = 0 THEN ev ELSE Add(f[i-1], "url", links[i])
    IN  f[Len(links)]

(* newsroom.agenda.contacts.get_contact_name / get_contact_email: the       *)
(* resolved display name and email of a contact, a string that may be empty *)
get_contact_name(contact) == GetD(contact, "name", "")

get_contact_email(contact) == GetD(contact, "email", "")

(* Mutant: only None is dropped, the empty string is kept.                  *)
FilterNone_keep_empty(parts) ==
    SelectSeq(parts, LAMBDA m : m # None)

(* filter(None, parts): drops None and the empty string, keeps the order.   *)
FilterNone(parts) ==
    SelectSeq(parts, LAMBDA m : m # None /\ m[1] # "")

(* sep.join(parts)                                                          *)
Join(sep, parts) ==
    LET f[i \in 0..Len(parts)] ==
            IF i = 0 THEN ""
            ELSE IF i = 1 THEN parts[1][1]
            ELSE f[i-1] \o sep \o parts[i][1]
    IN  f[Len(parts)]

FormatContact(contact) ==
    Join(", ", FilterNone(<< << get_contact_name(contact) >>,
                             Get(contact, "organisation"),
                             << get_contact_email(contact) >> >>))

ContactInfo(item) == Get(GetD(item, "event", EmptyDict), "event_contact_info")

AddContacts(item, ev) ==
    LET contacts == ContactInfo(item)[1]
        f[i \in 0..Len(contacts)] ==
            IF i = 0 THEN ev
            ELSE IF TruthyBool(contacts[i], "public")
                 THEN Add(f[i-1], "contact", FormatContact(contacts[i]))
                 ELSE f[i-1]
    IN  f[Len(contacts)]

Raise(e) == [exc |-> e, value |-> None]

Return(v) == [exc |-> "", value |-> << v >>]

(* The adds of format_event in source order, when no statement raises.      *)
BuildEvent(item, now) ==
    AddContacts(item,
    AddLinks(item,
    AddGeo(item,
    AddAttachments(item,
    AddRecurrence(item,
    AddDates(item,
    AddCategories(item,
    AddDescription(item,
    AddIdentity(item, now, NewEvent)))))))))

(* Mutant: summary = item.get('name', '').                                  *)
format_event_default_name(item, now) ==
    IF ~Has(GetD(item, "dates", EmptyDict), "start") THEN Raise("KeyError")
    ELSE IF ContactInfo(item) = None THEN Raise("TypeError")
    ELSE Return(BuildEvent(item @@ ("name" :> ""), now))

(* Mutant: no try/except around the recurrence lookup.                      *)
format_event_strict_rrule(item, now) ==
    IF ~Has(item, "name") THEN Raise("KeyError")
    ELSE IF ~Has(GetD(item, "dates", EmptyDict), "start") THEN Raise("KeyError")
    ELSE IF ~HasRecurrence(item) THEN Raise("KeyError")
    ELSE IF ContactInfo(item) = None THEN Raise("TypeError")
    ELSE Return(BuildEvent(item, now))

(* Mutant: .get('event_contact_info', []).                                  *)
format_event_default_contacts(item, now) ==
    LET event == GetD(item, "event", EmptyDict) @@ ("event_contact_info" :> << >>)
        item2 == [k \in DOMAIN item \cup {"event"} |->
                     IF k = "event" THEN event ELSE item[k]]
    IN  IF ~Has(item, "name") THEN Raise("KeyError")
        ELSE IF ~Has(GetD(item, "dates", EmptyDict), "start") THEN Raise("KeyError")
        ELSE Return(BuildEvent(item2, now))

(* format_event: the statements run in source order, so the exception that  *)
(* leaves the method is the one of the first statement that raises:         *)
(* item['name'] (line 47), dates['start'] (line 62), the iteration over     *)
(* .get('event_contact_info') when it is None (line 92).                    *)
format_event(item, now) ==
    IF ~Has(item, "name") THEN Raise("KeyError")
    ELSE IF ~Has(GetD(item, "dates", EmptyDict), "start") THEN Raise("KeyError")
    ELSE IF ContactInfo(item) = None THEN Raise("TypeError")
    ELSE Return(BuildEvent(item, now))

(* format_item: the calendar with its two headers and the one component;    *)
(* an exception of format_event leaves format_item before anything is       *)
(* returned.                                                                *)
format_item(item, now) ==
    LET r == format_event(item, now)
    IN  IF r.exc # "" THEN Raise(r.exc)
        ELSE Return([version |-> VERSION, prodid |-> PRODID,
                     subcomponents |-> << [name |-> "VEVENT", props |-> r.value[1]] >>])

(* ------------------------- the input records --------------------------- *)

BaseCalendars == << Dict("name" :> << "Sport" >>), Dict("name" :> << "" >>) >>

BaseFiles == << Dict("media" :> << "m1" >>), EmptyDict >>

BaseLinks == << "http://example.com/a", "http://example.com/b" >>

BaseLocation ==
    << Dict(("name" :> << "HQ" >>)
         @@ ("location" :> << Dict(("lat" :> << "1.0" >>) @@ ("lon" :> << "2.0" >>)) >>)) >>

BaseContacts ==
    << Dict(("public" :> << TRUE >>) @@ ("name" :> << "Jane Doe" >>)
         @@ ("organisation" :> << "" >>) @@ ("email" :> << "jane@x.com" >>)) >>

BaseRule == Dict(("frequency" :> << "DAILY" >>) @@ ("count" :> << 5 >>))

BaseDates == Dict(("start" :> << "20180110T100000Z" >>) @@ ("end" :> << "20180110T120000Z" >>))

DatesDicts ==
    {Dict(("start" :> s) @@ ("end" :> e)) :
        s \in Opt({"20180110T100000Z"}), e \in Opt({"20180110T120000Z"})}

(* Every key of the record, nested ones included, present or absent         *)
(* independently of the others, with one value each.                        *)
PresenceEvents ==
    {Dict(("guid" :> g) @@ ("dates" :> d) @@ ("files" :> f) @@ ("links" :> l)
          @@ ("event_contact_info" :> c)) :
        g \in Opt({"evt9"}),
        d \in Opt({EmptyDict, Dict("recurring_rule" :> << BaseRule >>)}),
        f \in Opt({BaseFiles}), l \in Opt({BaseLinks}), c \in Opt({BaseContacts})}

PresenceItems ==
    {Dict(("guid" :> g) @@ ("_id" :> i) @@ ("name" :> n) @@ ("definition_long" :> dl)
          @@ ("ednote" :> en) @@ ("priority" :> p) @@ ("calendars" :> cal)
          @@ ("dates" :> d) @@ ("location" :> loc) @@ ("event" :> ev)) :
        g \in Opt({"abc123"}), i \in Opt({"id42"}), n \in Opt({"Title"}),
        dl \in Opt({"Long text"}), en \in Opt({"Note"}), p \in Opt({1}),
        cal \in Opt({BaseCalendars}), d \in Opt(DatesDicts),
        loc \in Opt({BaseLocation}), ev \in Opt(PresenceEvents)}

(* The scalar fields over their values, the empty string and 0 included.    *)
ValueItems ==
    {Dict(("guid" :> g) @@ ("_id" :> << "id42" >>) @@ ("name" :> n)
          @@ ("definition_long" :> dl) @@ ("ednote" :> en) @@ ("priority" :> p)
          @@ ("dates" :> << d >>) @@ ("event" :> ev)) :
        g \in Opt({"", "abc123"}), n \in Opt({"", "Title"}),
        dl \in Opt({"", "Long text"}), en \in Opt({"", "Note"}),
        p \in Opt(0..MaxPriority), d \in DatesDicts \ {EmptyDict},
        ev \in Opt({Dict("event_contact_info" :> << BaseContacts >>)})}

RRules ==
    {Dict(("frequency" :> f) @@ ("count" :> c) @@ ("interval" :> i) @@ ("until" :> u)) :
        f \in Opt({"DAILY", "WEEKLY"}), c \in Opt(0..MaxCount),
        i \in Opt(0..MaxCount), u \in Opt({"20181231T000000Z"})}

RRuleItems ==
    {Dict(("guid" :> << "abc123" >>) @@ ("name" :> << "Title" >>)
          @@ ("dates" :> << BaseDates >>)
          @@ ("event" :> << Dict(("dates" :> << Dict("recurring_rule" :> << r >>) >>)
                               @@ ("event_contact_info" :> c)) >>)) :
        r \in RRules, c \in Opt({BaseContacts})}

Locs ==
    {Dict(("name" :> n) @@ ("location" :> l)) :
        n \in Opt({"", "HQ"}),
        l \in Opt({Dict(("lat" :> la) @@ ("lon" :> lo)) :
                      la \in Opt({"1.0"}), lo \in Opt({"2.0"})})}

LocationItems ==
    {Dict(("guid" :> << "abc123" >>) @@ ("name" :> << "Title" >>)
          @@ ("dates" :> << BaseDates >>) @@ ("location" :> << l >>)
          @@ ("event" :> << Dict("event_contact_info" :> << BaseContacts >>) >>)) :
        l \in SeqUpTo(Locs, MaxLocations)}

(* Public contacts over every combination of empty and non-empty parts,     *)
(* and contacts whose public flag is false or missing.                      *)
Contacts ==
    {Dict(("public" :> << TRUE >>) @@ ("name" :> << n >>) @@ ("organisation" :> o)
          @@ ("email" :> << e >>)) :
        n \in {"", "Jane Doe"}, o \in Opt({"", "AAP"}), e \in {"", "jane@x.com"}}
    \cup
    {Dict(("public" :> p) @@ ("name" :> << "John Roe" >>)
          @@ ("organisation" :> << "AAP" >>) @@ ("email" :> << "john@x.com" >>)) :
        p \in Opt({FALSE})}

ContactItems ==
    {Dict(("guid" :> << "abc123" >>) @@ ("name" :> << "Title" >>)
          @@ ("dates" :> << BaseDates >>)
          @@ ("event" :> << Dict("event_contact_info" :> << c >>) >>)) :
        c \in SeqUpTo(Contacts, MaxContacts)}

Items == PresenceItems \cup ValueItems \cup RRuleItems \cup LocationItems \cup ContactItems

(* --------------------------- the state machine -------------------------- *)

Init ==
    /\ record \in Items
    /\ call = "none"
    /\ exc = ""
    /\ document = None
    /\ filename = None

(* iCalFormatter().format_item(record), with utcnow() read once             *)
FormatItem ==
    /\ call = "none"
    /\ \E now \in Clock :
         LET r == format_item(record, now)
         IN  /\ exc' = r.exc
             /\ document' = r.value
    /\ call' = "format_item"
    /\ UNCHANGED <<record, filename>>

(* iCalFormatter().format_filename(record)                                  *)
FormatFilename ==
    /\ call = "none"
    /\ filename' = << format_filename(record) >>
    /\ exc' = ""
    /\ call' = "format_filename"
    /\ UNCHANGED <<record, document>>

Next == FormatItem \/ FormatFilename

Spec == Init /\ [][Next]_vars

TypeOK ==
    /\ call \in {"none", "format_item", "format_filename"}
    /\ exc \in {"", "KeyError", "TypeError"}
    /\ Len(document) \in {0, 1}
    /\ Len(filename) \in {0, 1}

(* ------------------------------ properties ----------------------------- *)

Returned == call = "format_item" /\ exc = ""

Vevent == document[1].subcomponents[1].props

RecEvent == GetD(record, "event", EmptyDict)

RecDates == GetD(record, "dates", EmptyDict)

Prop(name) == GetD(Vevent, name, << >>)

(* C1: for every record with name and dates.start present, whatever else   *)
(* is present or absent, format_item succeeds and returns a document with  *)
(* exactly one VEVENT whose SUMMARY is name and whose DTSTART is            *)
(* dates.start, and which carries UID and DTSTAMP.                          *)
C1_RequiredFieldsSuffice ==
    (call = "format_item" /\ Has(record, "name") /\ Has(RecDates, "start")) =>
        /\ exc = ""
        /\ document # None
        /\ Len(document[1].subcomponents) = 1
        /\ document[1].subcomponents[1].name = "VEVENT"
        /\ Prop("summary") = << record["name"] >>
        /\ Prop("dtstart") = << RecDates["start"] >>
        /\ Has(Vevent, "uid")
        /\ Has(Vevent, "dtstamp")

(* C2: a record that lacks name, or lacks dates.start (dates itself may be  *)
(* absent), makes format_item end in an error and return no document.       *)
C2_MissingRequiredFails ==
    (call = "format_item" /\ (~Has(record, "name") \/ ~Has(RecDates, "start"))) =>
        (exc # "" /\ document = None)

C2_Witness ==
    /\ call = "format_item"
    /\ ~Has(record, "name")
    /\ Has(RecDates, "start")
    /\ Has(RecEvent, "event_contact_info")
    /\ exc = "KeyError"
    /\ document = None

(* C3: the identifier is the record's guid if present, else event.guid if   *)
(* present, else _id; the VEVENT UID is that identifier and format_filename *)
(* returns it followed by ".ical".                                          *)
C3_GuidPriority ==
    /\ (call = "format_filename" /\ Has(record, "guid")) =>
            filename = << record["guid"] \o ".ical" >>
    /\ (call = "format_filename" /\ ~Has(record, "guid") /\ Has(RecEvent, "guid")) =>
            filename = << RecEvent["guid"] \o ".ical" >>
    /\ (call = "format_filename" /\ ~Has(record, "guid") /\ ~Has(RecEvent, "guid")
            /\ Has(record, "_id")) =>
            filename = << record["_id"] \o ".ical" >>
    /\ (Returned /\ Has(record, "guid")) =>
            Prop("uid") = << << record["guid"] >> >>
    /\ (Returned /\ ~Has(record, "guid") /\ Has(RecEvent, "guid")) =>
            Prop("uid") = << << RecEvent["guid"] >> >>
    /\ (Returned /\ ~Has(record, "guid") /\ ~Has(RecEvent, "guid") /\ Has(record, "_id")) =>
            Prop("uid") = << << record["_id"] >> >>

C3_Witness ==
    /\ call = "format_filename"
    /\ Has(record, "guid") /\ record["guid"] = "abc123"
    /\ Has(RecEvent, "guid")
    /\ Has(record, "_id")
    /\ filename = << "abc123.ical" >>

C5_IncludedIffEmitted ==
    Returned =>
        /\ Prop("description") = Get(record, "definition_long")
        /\ Prop("comment") = Get(record, "ednote")
        /\ Prop("priority") = Get(record, "priority")
        /\ Prop("dtend") = Get(RecDates, "end")

(* C5 amended: DESCRIPTION, COMMENT and PRIORITY are emitted, with exactly  *)
(* the field's value, when the field is included and not empty (a non-empty *)
(* string, a non-zero priority) and are absent when the field is omitted,   *)
(* is the empty string or is 0; DTEND is emitted with the value of          *)
(* dates.end exactly when dates.end is included.                            *)
C5_NonEmptyIffEmitted ==
    Returned =>
        /\ Prop("description") =
               IF Has(record, "definition_long") /\ record["definition_long"] # ""
               THEN << record["definition_long"] >> ELSE << >>
        /\ Prop("comment") =
               IF Has(record, "ednote") /\ record["ednote"] # ""
               THEN << record["ednote"] >> ELSE << >>
        /\ Prop("priority") =
               IF Has(record, "priority") /\ record["priority"] # 0
               THEN << record["priority"] >> ELSE << >>
        /\ Prop("dtend") = Get(RecDates, "end")

C5_Witness ==
    /\ Returned
    /\ Has(record, "definition_long") /\ record["definition_long"] = "Long text"
    /\ Prop("description") = << "Long text" >>
    /\ ~Has(record, "ednote") /\ ~Has(Vevent, "comment")
    /\ Has(record, "priority") /\ record["priority"] = 0 /\ ~Has(Vevent, "priority")
    /\ Has(RecDates, "end") /\ Has(Vevent, "dtend")

PathResolves ==
    /\ Has(record, "event")
    /\ Has(record["event"], "dates")
    /\ Has(record["event"]["dates"], "recurring_rule")

RequiredPresent ==
    /\ Has(record, "name")
    /\ Has(RecDates, "start")
    /\ Has(RecEvent, "event_contact_info")

Rule == record["event"]["dates"]["recurring_rule"]

(* C7 as stated: for a rule with frequency, the RRULE has FREQ equal to     *)
(* frequency and has COUNT, INTERVAL and UNTIL exactly when count, interval *)
(* and until are present in the rule, with the source value.                *)
C7_ParamIffPresent ==
    (Returned /\ PathResolves /\ Has(Rule, "frequency")) =>
        /\ Len(Prop("rrule")) = 1
        /\ Prop("rrule")[1]["freq"] = Rule["frequency"]
        /\ Get(Prop("rrule")[1], "count") = Get(Rule, "count")
        /\ Get(Prop("rrule")[1], "interval") = Get(Rule, "interval")
        /\ Get(Prop("rrule")[1], "until") = Get(Rule, "until")
        /\ DOMAIN Prop("rrule")[1] \subseteq {"freq", "count", "interval", "until"}

(* C7 amended: for a rule with frequency, the RRULE has FREQ equal to       *)
(* frequency, has COUNT and INTERVAL exactly when count and interval are    *)
(* present in the rule and not 0, and has UNTIL exactly when until is       *)
(* present, each with the source value; no other parameter is emitted.      *)
C7_ParamIffNonZero ==
    (Returned /\ PathResolves /\ Has(Rule, "frequency")) =>
        /\ Len(Prop("rrule")) = 1
        /\ Prop("rrule")[1]["freq"] = Rule["frequency"]
        /\ Get(Prop("rrule")[1], "count") =
               IF Has(Rule, "count") /\ Rule["count"] # 0
               THEN << Rule["count"] >> ELSE None
        /\ Get(Prop("rrule")[1], "interval") =
               IF Has(Rule, "interval") /\ Rule["interval"] # 0
               THEN << Rule["interval"] >> ELSE None
        /\ Get(Prop("rrule")[1], "until") = Get(Rule, "until")
        /\ DOMAIN Prop("rrule")[1] \subseteq {"freq", "count", "interval", "until"}

C7_Witness ==
    /\ Returned
    /\ PathResolves
    /\ Has(Rule, "frequency") /\ Rule["frequency"] = "DAILY"
    /\ Has(Rule, "count") /\ Rule["count"] = 0
    /\ Has(Rule, "interval") /\ Rule["interval"] = 2
    /\ ~Has(Rule, "until")
    /\ Prop("rrule") = << Dict(("freq" :> << "DAILY" >>) @@ ("interval" :> << 2 >>)) >>

Locations == GetD(record, "location", << >>)

NamedLocations == SelectSeq(Locations, LAMBDA l : Has(l, "name") /\ l["name"] # "")

GeoLocations ==
    SelectSeq(Locations, LAMBDA l :
        Has(l, "location") /\ Has(l["location"], "lat") /\ Has(l["location"], "lon"))

(* C8: the LOCATION properties are the non-empty names of the entries of    *)
(* location and the GEO properties the coordinates of the entries that have *)
(* both location.lat and location.lon, each in input order and each         *)
(* independent of the other; a missing coordinate or location mapping       *)
(* never makes the call fail.                                               *)
C8_LocationAndGeoIndependent ==
    /\ (call = "format_item" /\ RequiredPresent) => exc = ""
    /\ Returned =>
        /\ Prop("location") = [i \in 1..Len(NamedLocations) |-> NamedLocations[i]["name"]]
        /\ Prop("geo") = [i \in 1..Len(GeoLocations) |->
                             << GeoLocations[i]["location"]["lat"],
                                GeoLocations[i]["location"]["lon"] >>]

C8_Witness ==
    /\ Returned
    /\ Len(Locations) = 2
    /\ Locations[1] = Dict(("name" :> << "HQ" >>)
                           @@ ("location" :> << Dict("lat" :> << "1.0" >>) >>))
    /\ Locations[2] = Dict("location" :> << Dict(("lat" :> << "1.0" >>)
                                                 @@ ("lon" :> << "2.0" >>)) >>)
    /\ Prop("location") = << "HQ" >>
    /\ Prop("geo") = << << "1.0", "2.0" >> >>

PublicContacts ==
    SelectSeq(RecEvent["event_contact_info"], LAMBDA c : Has(c, "public") /\ c["public"])

Glue(a, b) == IF a = "" THEN b ELSE IF b = "" THEN a ELSE a \o ", " \o b

(* C9: the CONTACT properties are one per public contact of                 *)
(* event.event_contact_info, in input order; each is the ", "-join of the   *)
(* non-empty parts among display name, organisation and email, in that      *)
(* order, without a doubled, leading or trailing separator.                 *)
C9_PublicContactsJoined ==
    Returned =>
        Prop("contact") =
            [i \in 1..Len(PublicContacts) |->
                Glue(Glue(get_contact_name(PublicContacts[i]),
                          GetD(PublicContacts[i], "organisation", "")),
                     get_contact_email(PublicContacts[i]))]

C9_Witness ==
    /\ Returned
    /\ Len(RecEvent["event_contact_info"]) = 2
    /\ ~Has(RecEvent["event_contact_info"][1], "public")
    /\ get_contact_name(RecEvent["event_contact_info"][1]) = "John Roe"
    /\ RecEvent["event_contact_info"][2] =
           Dict(("public" :> << TRUE >>) @@ ("name" :> << "Jane Doe" >>)
             @@ ("organisation" :> << "" >>) @@ ("email" :> << "jane@x.com" >>))
    /\ Prop("contact") = << "Jane Doe, jane@x.com" >>

(* C10: when event_contact_info is absent (no event, or an event without    *)
(* the key) format_item fails and returns no document, also when name,      *)
(* dates.start and all other fields are valid.                              *)
C10_MissingContactsFails ==
    /\ (call = "format_item" /\ ~Has(RecEvent, "event_contact_info")) =>
            (exc # "" /\ document = None)
    /\ (call = "format_item" /\ ~Has(RecEvent, "event_contact_info")
            /\ Has(record, "name") /\ Has(RecDates, "start")) =>
            exc = "TypeError"

C10_Witness ==
    /\ call = "format_item"
    /\ Has(record, "name") /\ Has(RecDates, "start")
    /\ Has(record, "event") /\ ~Has(record["event"], "event_contact_info")
    /\ PathResolves
    /\ exc = "TypeError"
    /\ document = None

====
